---- MODULE Spec2Model ----
(***************************************************************************)
(* State-machine model of solaredge-emporia-autocharge.py: the start-up    *)
(* configuration parsing, the identification of the charger, and the       *)
(* service loop that reads the site power flow and the charger usage,      *)
(* smooths the available power, converts it to an amperage and updates     *)
(* the charger's charging rate.                                            *)
(*                                                                         *)
(* Units.  Raw readings (production, consumption, charger usage) are       *)
(* integers in watts (0.001 kW).  Every value the program passes through   *)
(* round(x, 2) is an integer in hundredths of a kW (10 W).                 *)
(***************************************************************************)
EXTENDS Integers, Sequences, FiniteSets, TLC

(* ----------------------------- bounds --------------------------------- *)

\* number of iterations of the service loop that are explored
MaxCycles == 3

(* ------------------------ program constants --------------------------- *)

MIN_AMPS == 6
MAX_AMPS == 40
DefaultUpdateFreq == 60
DefaultSmooth == 5
DefaultOffsetAmps == 0
\* 240 V line voltage, expressed for hundredths of a kW: c/100*1000/240 = c/24
CentiKwPerAmp == 24
\* round(x, 2) of a value given in watts keeps one unit per 10 W
WattsPerCentiKw == 10

(* -------------------------- input domains ----------------------------- *)

\* a command-line option: not given, given with an integer text, or given
\* with a text int() cannot parse
Absent == [kind |-> "absent", val |-> 0]
NonNumeric == [kind |-> "str", val |-> 0]
Num(n) == [kind |-> "int", val |-> n]

FreqInputs == {-1}
SmoothInputs == {-1, 0, 2}
MinAmpsInputs == {3, 50}
MaxAmpsInputs == {3, 45}
OffsetInputs == {-3}

OptionValues(S) == {Absent, NonNumeric} \cup {Num(n) : n \in S}

\* readings of the two back ends, in watts
ProdReadings == {0, 12004}
ConsReadings == {500}
UsageReadings == {0, 1507}
\* charging rates somebody else (owner, vendor app) may set, and the rate
\* the charger has when the program starts
OwnerRates == {6, 16}
\* on/off states the charger may have at start-up or be switched to
OwnerOnOff == BOOLEAN

(* ------------------------- pure functions ----------------------------- *)

\* int(text): the value of an integer text; a ValueError otherwise
IntParses(opt) == opt.kind # "str"

\* round(x, 2) of the quotient num/den (den > 0) in units of 0.01: the
\* nearest integer; on an exact tie the binary float decides, so both
\* neighbours are possible outcomes
Round2(num, den) ==
    LET q == num \div den
        r == num % den
    IN  IF 2 * r < den THEN {q}
        ELSE IF 2 * r > den THEN {q + 1}
        ELSE {q, q + 1}

\* int(x) of the quotient num/den (den > 0): truncation toward zero
IntTrunc(num, den) ==
    IF num >= 0 THEN num \div den ELSE -((-num) \div den)

Max(a, b) == IF a >= b THEN a ELSE b
Min(a, b) == IF a <= b THEN a ELSE b

RECURSIVE Sum(_)
Sum(s) == IF s = <<>> THEN 0 ELSE Head(s) + Sum(Tail(s))

\* Python's lst[k:] for k >= 0
DropFirst(s, k) == IF k >= Len(s) THEN <<>> ELSE SubSeq(s, k + 1, Len(s))

\* Python's lst[-list_size:] : for list_size > 0 the last list_size items,
\* for list_size <= 0 the slice lst[k:] with k = -list_size
SliceFromMinus(s, list_size) ==
    IF list_size > 0
    THEN DropFirst(s, Max(Len(s) - list_size, 0))
    ELSE DropFirst(s, -list_size)

\* the list sliding_average keeps after adding num
SlidingValues(vals, num, list_size) ==
    LET appended == Append(vals, num)
    IN  IF Len(appended) > list_size
        THEN SliceFromMinus(appended, list_size)
        ELSE appended

\* min_amps / max_amps as configured from an integer option
ConfigMinAmps(n) == Max(n, MIN_AMPS)
ConfigMaxAmps(n) == Min(n, MAX_AMPS)

\* available_for_charger_kw: the charger's own draw is added back
\* a variant that takes the charger's draw off instead
AvailableForChargerMinusDraw(pmc, cur) == pmc - cur
AvailableForCharger(pmc, cur) == pmc + cur

\* the values up to 35 kW at which the float product average_kw * 1000 / 240
\* falls just short of the whole quotient, so that int() gives one less
FloatShortfall == {-3216, -1608, 1608, 3216}

\* a variant that rounds to the nearest amp
AmpsFromKwNearest(avg) == (2 * avg + CentiKwPerAmp) \div (2 * CentiKwPerAmp)
AmpsFromKw(avg) ==
    LET t == IntTrunc(avg, CentiKwPerAmp)
    IN  IF avg \in FloatShortfall
        THEN (IF avg > 0 THEN t - 1 ELSE t + 1)
        ELSE t
FinalAmps(a, lo, hi) == Max(Min(a, hi), lo)
\* charger.charging_rate after the assignment that precedes the update
\* a variant that leaves the charger object as it was
RateAfterWriteStale(pre, final) == pre
RateAfterWrite(pre, final) == final
\* a variant that sends the minimum rate again whenever it is the target
NeedsUpdateOrAtFloor(pre, final) == pre # final \/ final = MIN_AMPS
\* a variant that sends the rate in every cycle
NeedsUpdateAlways(pre, final) == TRUE
NeedsUpdate(pre, final) == pre # final

(* ------------------------------ state --------------------------------- *)

VARIABLES
    pc,                       \* where the process is
    exc,                      \* the uncaught exception that ended it, or "none"
    update_freq, smooth, min_amps, max_amps, offset_amps,   \* configuration
    values,                   \* sliding_average.values
    charging_rate,            \* charger_device.ev_charger.charging_rate
    charger_on,               \* charger_device.ev_charger.charger_on
    backend_rate,             \* the setpoint the charger really has
    backend_on,               \* whether the charger really is switched on
    prod_kw, cons_kw, usage_kw,       \* raw readings of the current cycle (W)
    prod_min_cons_kw, available_for_charger_kw, average_kw,
    amps_from_kw, amps, final_amps, pre_change,   \* locals of the current cycle
    cycle,                    \* number of the current loop iteration
    decided,                  \* this cycle computed final_amps
    fetchFailed,              \* a fetch of this cycle failed
    siteRead, usageRead,      \* the two reads of this cycle that succeeded
    observed,                 \* this cycle called sliding_average
    updateIssued,             \* this cycle called vue.update_charger
    updateFailed,             \* that call raised
    valuesAtStart,            \* values when this cycle started
    rateAtStart,              \* backend_rate when this cycle started
    inputs,                   \* every value passed to sliding_average so far
    prevFinal, prevUpdated,   \* the previous cycle: its final_amps, and
                              \* whether its update was sent and succeeded
    prevWritten, lastWritten  \* the rates of the last two successful updates

config == <<update_freq, smooth, min_amps, max_amps, offset_amps>>
locals == <<prod_kw, cons_kw, usage_kw, prod_min_cons_kw,
            available_for_charger_kw, average_kw,
            amps_from_kw, amps, final_amps, pre_change>>
flags == <<decided, fetchFailed, siteRead, usageRead, observed,
           updateIssued, updateFailed>>
atStart == <<valuesAtStart, rateAtStart, prevFinal, prevUpdated>>
cached == <<charging_rate, charger_on>>
backend == <<backend_rate, backend_on>>
written == <<prevWritten, lastWritten>>
vars == <<pc, exc, config, values, cached, backend, locals,
          cycle, flags, atStart, inputs, written>>

\* the states of one loop iteration
FETCHING == {"FETCHING_SITE", "FETCHING_USAGE"}
LoopStates == FETCHING \cup {"APPLYING", "SLEEPING"}

Init ==
    /\ pc = "STARTUP"
    /\ exc = "none"
    /\ update_freq = DefaultUpdateFreq
    /\ smooth = DefaultSmooth
    /\ min_amps = MIN_AMPS
    /\ max_amps = MAX_AMPS
    /\ offset_amps = DefaultOffsetAmps
    /\ values = <<>>
    /\ charging_rate = 0          \* no charger_device yet
    /\ charger_on = FALSE
    /\ backend_rate \in OwnerRates
    /\ backend_on \in OwnerOnOff
    /\ prod_kw = 0 /\ cons_kw = 0 /\ usage_kw = 0
    /\ prod_min_cons_kw = 0 /\ available_for_charger_kw = 0 /\ average_kw = 0
    /\ amps_from_kw = 0 /\ amps = 0 /\ final_amps = 0 /\ pre_change = 0
    /\ cycle = 0
    /\ decided = FALSE /\ fetchFailed = FALSE
    /\ siteRead = FALSE /\ usageRead = FALSE /\ observed = FALSE
    /\ updateIssued = FALSE /\ updateFailed = FALSE
    /\ valuesAtStart = <<>>
    /\ rateAtStart = 0
    /\ inputs = <<>>
    /\ prevFinal = 0 /\ prevUpdated = FALSE
    /\ prevWritten = 0 /\ lastWritten = 0

\* the top of the while loop: a call of update_charge_amp_by_solaredge_data
\* begins, with fresh locals
EnterCycle ==
    /\ pc' = "FETCHING_SITE"
    /\ cycle' = cycle + 1
    /\ prod_kw' = 0 /\ cons_kw' = 0 /\ usage_kw' = 0
    /\ prod_min_cons_kw' = 0 /\ available_for_charger_kw' = 0 /\ average_kw' = 0
    /\ amps_from_kw' = 0 /\ amps' = 0 /\ final_amps' = 0 /\ pre_change' = 0
    /\ decided' = FALSE /\ fetchFailed' = FALSE
    /\ siteRead' = FALSE /\ usageRead' = FALSE /\ observed' = FALSE
    /\ updateIssued' = FALSE /\ updateFailed' = FALSE
    /\ valuesAtStart' = values
    /\ rateAtStart' = backend_rate
    /\ prevFinal' = final_amps
    /\ prevUpdated' = (updateIssued /\ ~updateFailed)

\* an exception nobody catches ends the process
Raise(e, where) ==
    /\ pc' = where
    /\ exc' = e

(* ----------------------------- start-up ------------------------------- *)

\* module level code: parse the options in order, then identify the charger
Startup ==
    /\ pc = "STARTUP"
    /\ \E freq \in OptionValues(FreqInputs), sm \in OptionValues(SmoothInputs),
          mn \in OptionValues(MinAmpsInputs), mx \in OptionValues(MaxAmpsInputs),
          off \in OptionValues(OffsetInputs), found \in BOOLEAN :
        LET ok1 == IntParses(freq)
            ok2 == ok1 /\ IntParses(sm)
            ok3 == ok2 /\ IntParses(mn)
            ok4 == ok3 /\ IntParses(mx)
            ok5 == ok4 /\ IntParses(off)
        IN  /\ update_freq' = IF freq.kind = "int" THEN freq.val ELSE update_freq
            /\ smooth' = IF ok1 /\ sm.kind = "int" THEN sm.val ELSE smooth
            /\ min_amps' = IF ok2 /\ mn.kind = "int"
                           THEN ConfigMinAmps(mn.val) ELSE min_amps
            /\ max_amps' = IF ok3 /\ mx.kind = "int"
                           THEN ConfigMaxAmps(mx.val) ELSE max_amps
            /\ offset_amps' = IF ok4 /\ off.kind = "int" THEN off.val ELSE offset_amps
            /\ IF ~ok5
               THEN /\ Raise("ValueError", "EXITED")
                    /\ UNCHANGED <<cached, locals, cycle, flags, atStart>>
               ELSE IF ~found
               THEN /\ pc' = "EXITED"      \* "No charger device found, exiting"
                    /\ UNCHANGED <<exc, cached, locals, cycle, flags, atStart>>
               ELSE /\ charging_rate' = backend_rate
                    /\ charger_on' = backend_on
                    /\ EnterCycle
                    /\ UNCHANGED exc
    /\ UNCHANGED <<values, backend, inputs, written>>

(* --------------------------- one iteration ---------------------------- *)

\* a variant that feeds a zero reading to the filter when the read fails
SiteFetchFailsFeedsZero ==
    /\ pc = "FETCHING_SITE"
    /\ pc' = "SLEEPING"
    /\ fetchFailed' = TRUE
    /\ values' = Append(values, 0)
    /\ inputs' = Append(inputs, 0)
    /\ UNCHANGED <<exc, config, cached, backend, locals, cycle, decided,
                   siteRead, usageRead, observed, updateIssued, updateFailed,
                   atStart, written>>

\* solaredge_get_site_power_flow raises (network error, status other than
\* 200, body that is not JSON): caught, the function returns
SiteFetchFails ==
    /\ pc = "FETCHING_SITE"
    /\ pc' = "SLEEPING"
    /\ fetchFailed' = TRUE
    /\ UNCHANGED <<exc, config, values, cached, backend, locals, cycle, decided,
                   siteRead, usageRead, observed, updateIssued, updateFailed,
                   atStart, inputs, written>>

\* the response is JSON without the expected keys: the lookups after the
\* try block raise
SiteFetchMalformed ==
    /\ pc = "FETCHING_SITE"
    /\ Raise("KeyError", "TERMINATED")
    /\ fetchFailed' = TRUE
    /\ UNCHANGED <<config, values, cached, backend, locals, cycle, decided,
                   siteRead, usageRead, observed, updateIssued, updateFailed,
                   atStart, inputs, written>>

SiteFetchOK ==
    /\ pc = "FETCHING_SITE"
    /\ \E p \in ProdReadings, c \in ConsReadings :
         /\ prod_kw' = p
         /\ cons_kw' = c
         /\ prod_min_cons_kw' \in Round2(p - c, WattsPerCentiKw)
    /\ siteRead' = TRUE
    /\ pc' = "FETCHING_USAGE"
    /\ UNCHANGED <<exc, config, values, cached, backend, usage_kw,
                   available_for_charger_kw, average_kw, amps_from_kw, amps,
                   final_amps, pre_change, cycle, decided, fetchFailed,
                   usageRead, observed, updateIssued, updateFailed, atStart,
                   inputs, written>>

\* a variant that goes on with the site reading alone when the usage read
\* fails
UsageFetchFailsUsesSiteOnly ==
    /\ pc = "FETCHING_USAGE"
    /\ pc' = "SLEEPING"
    /\ fetchFailed' = TRUE
    /\ observed' = TRUE
    /\ values' = SlidingValues(values, prod_min_cons_kw, smooth)
    /\ inputs' = Append(inputs, prod_min_cons_kw)
    /\ UNCHANGED <<exc, config, cached, backend, locals, cycle, decided,
                   siteRead, usageRead, updateIssued, updateFailed,
                   atStart, written>>

\* vue.get_device_list_usage raises: nothing catches it
UsageFetchFails ==
    /\ pc = "FETCHING_USAGE"
    /\ Raise("RequestException", "TERMINATED")
    /\ fetchFailed' = TRUE
    /\ UNCHANGED <<config, values, cached, backend, locals, cycle, decided,
                   siteRead, usageRead, observed, updateIssued, updateFailed,
                   atStart, inputs, written>>

\* the usage arrives: fuse, smooth, convert, clamp, compare, and start the
\* update when the rate differs
UsageFetchOK ==
    /\ pc = "FETCHING_USAGE"
    /\ \E usage \in UsageReadings :
       \E cur_charger_usage_kw \in Round2(usage, WattsPerCentiKw) :
        LET available == AvailableForCharger(prod_min_cons_kw,
                                             cur_charger_usage_kw)
            newValues == SlidingValues(values, available, smooth)
        IN  /\ usage_kw' = usage
            /\ available_for_charger_kw' = available
            /\ values' = newValues
            /\ inputs' = Append(inputs, available)
            /\ IF Len(newValues) = 0
               THEN /\ Raise("ZeroDivisionError", "TERMINATED")
                    /\ UNCHANGED <<charging_rate, average_kw, amps_from_kw, amps,
                                   final_amps, pre_change, decided, updateIssued>>
               ELSE \E avg \in Round2(Sum(newValues), Len(newValues)) :
                    LET raw == AmpsFromKw(avg)
                        a == raw + offset_amps
                        f == FinalAmps(a, min_amps, max_amps)
                    IN  /\ average_kw' = avg
                        /\ amps_from_kw' = raw
                        /\ amps' = a
                        /\ final_amps' = f
                        /\ pre_change' = charging_rate
                        /\ decided' = TRUE
                        /\ UNCHANGED exc
                        /\ IF NeedsUpdate(charging_rate, f)
                           THEN /\ charging_rate' = RateAfterWrite(charging_rate, f)
                                /\ updateIssued' = TRUE
                                /\ pc' = "APPLYING"
                           ELSE /\ pc' = "SLEEPING"
                                /\ UNCHANGED <<charging_rate, updateIssued>>
    /\ usageRead' = TRUE
    /\ observed' = TRUE
    /\ UNCHANGED <<config, charger_on, backend, prod_kw, cons_kw,
                   prod_min_cons_kw, cycle, fetchFailed, siteRead,
                   updateFailed, atStart, written>>

\* vue.update_charger(charger) succeeds: the charger object as a whole is
\* sent, so the charger takes its rate and its on/off field
UpdateChargerOK ==
    /\ pc = "APPLYING"
    /\ backend_rate' = charging_rate
    /\ backend_on' = charger_on
    /\ prevWritten' = lastWritten
    /\ lastWritten' = charging_rate
    /\ pc' = "SLEEPING"
    /\ UNCHANGED <<exc, config, values, cached, locals, cycle, flags,
                   atStart, inputs>>

\* vue.update_charger raises (request refused or failed): nothing catches it
UpdateChargerFails ==
    /\ pc = "APPLYING"
    /\ Raise("HTTPError", "TERMINATED")
    /\ updateFailed' = TRUE
    /\ UNCHANGED <<config, values, cached, backend, locals, cycle,
                   decided, fetchFailed, siteRead, usageRead, observed,
                   updateIssued, atStart, inputs, written>>

\* a variant driven by a timer: the next iteration starts when the period
\* is over, whether or not the update of the running one has returned
SleepWithoutWaiting ==
    /\ pc \in {"SLEEPING", "APPLYING"}
    /\ IF update_freq < 0
       THEN /\ Raise("ValueError", "TERMINATED")
            /\ UNCHANGED <<locals, cycle, flags, atStart>>
       ELSE /\ cycle < MaxCycles
            /\ EnterCycle
            /\ UNCHANGED exc
    /\ UNCHANGED <<config, values, cached, backend, inputs, written>>

\* time.sleep(update_freq), then the next iteration
Sleep ==
    /\ pc = "SLEEPING"
    /\ IF update_freq < 0
       THEN /\ Raise("ValueError", "TERMINATED")
            /\ UNCHANGED <<locals, cycle, flags, atStart>>
       ELSE /\ cycle < MaxCycles
            /\ EnterCycle
            /\ UNCHANGED exc
    /\ UNCHANGED <<config, values, cached, backend, inputs, written>>

(* ---------------------------- environment ----------------------------- *)

\* the owner or the vendor app sets another charging rate, or switches
\* the charger on or off
OutOfBand ==
    /\ pc \in LoopStates
    /\ \/ /\ \E r \in OwnerRates : r # backend_rate /\ backend_rate' = r
          /\ UNCHANGED backend_on
       \/ /\ \E b \in OwnerOnOff : b # backend_on /\ backend_on' = b
          /\ UNCHANGED backend_rate
    /\ UNCHANGED <<pc, exc, config, values, cached, locals, cycle,
                   flags, atStart, inputs, written>>

Next ==
    \/ Startup
    \/ SiteFetchFails
    \/ SiteFetchMalformed
    \/ SiteFetchOK
    \/ UsageFetchFails
    \/ UsageFetchOK
    \/ UpdateChargerOK
    \/ UpdateChargerFails
    \/ Sleep
    \/ OutOfBand

Spec == Init /\ [][Next]_vars

TypeOK ==
    /\ pc \in LoopStates \cup {"STARTUP", "EXITED", "TERMINATED"}
    /\ cycle \in 0..MaxCycles
    /\ Len(inputs) <= MaxCycles

(* ------------------------------ claims -------------------------------- *)

\* C1: every amperage the loop computes for the charger lies between the
\* hard floor of 6 A and the hard ceiling of 40 A, whatever the options.
C1_CommandedWithinHardLimits ==
    decided => (MIN_AMPS <= final_amps /\ final_amps <= MAX_AMPS)

\* C2: a failed fetch (site power flow or charger usage) never ends the
\* process: the iteration is given up and the loop goes on.
C2_FetchFailureKeepsLoopRunning ==
    fetchFailed => (pc = "SLEEPING" /\ exc = "none")

\* C3: a failed setpoint update never ends the process: the loop goes on
\* to sleep and to the next iteration.
C3_UpdateFailureKeepsLoopRunning ==
    updateFailed => (pc \in LoopStates /\ exc = "none")

\* C4: in an iteration where a fetch failed the smoothing history is what
\* it was when the iteration began and no setpoint update is issued.
C4_FailedFetchLeavesHistory ==
    fetchFailed => (values = valuesAtStart /\ ~updateIssued /\ pc # "APPLYING")

C4_Witness ==
    /\ fetchFailed
    /\ valuesAtStart # <<>>
    /\ pc \in {"SLEEPING", "TERMINATED"}

\* C5: an iteration that reaches the decision issues a setpoint update
\* exactly when the clamped target differs from the last known rate; when
\* they are equal nothing is written and the charger object is untouched.
C5_UpdateIffRateDiffers ==
    decided =>
        /\ updateIssued <=> (final_amps # pre_change)
        /\ final_amps = pre_change =>
              (charging_rate = pre_change /\ pc # "APPLYING")
        /\ final_amps # pre_change => charging_rate = final_amps

C5_Witness ==
    /\ decided
    /\ final_amps = pre_change
    /\ ~updateIssued
    /\ pc = "SLEEPING"
    /\ cycle > 1

\* C6: the rate the decision compares against is the rate the charger
\* really had when the iteration began, also after an out-of-band change.
C6_LastKnownIsActualAtStart ==
    decided => pre_change = rateAtStart

\* C7: below min_amps the commanded value is min_amps, above max_amps it
\* is max_amps, and inside the range it is the amps value itself.
C7_ClampToNearestBound ==
    decided =>
        /\ amps < min_amps => final_amps = min_amps
        /\ amps > max_amps => final_amps = max_amps
        /\ (min_amps <= amps /\ amps <= max_amps) => final_amps = amps

\* the last n items of s (none when n is not positive)
LastN(s, n) ==
    IF n <= 0 THEN <<>>
    ELSE IF Len(s) <= n THEN s
    ELSE SubSeq(s, Len(s) - n + 1, Len(s))

\* C8: after any observe calls the history holds no more than the window
\* size, and it is the most recent inputs in arrival order.
C8_HistoryIsLastN ==
    inputs # <<>> =>
        /\ Len(values) <= Max(smooth, 0)
        /\ values = LastN(inputs, smooth)

\* a configuration the specification calls invalid
ConfigurationInvalid == smooth < 1 \/ min_amps > max_amps

\* C9: with an out-of-range configuration the loop never starts: no fetch
\* is ever begun.
C9_InvalidConfigNeverFetches ==
    ConfigurationInvalid => (cycle = 0 /\ pc \notin LoopStates)

\* C10: every observe call completes with a mean: the history is not
\* empty when the mean is taken.
C10_ObserveReturnsMean ==
    inputs # <<>> => (values # <<>> /\ exc # "ZeroDivisionError")

RECURSIVE SeqMin(_)
SeqMin(s) == IF Len(s) = 1 THEN s[1] ELSE Min(Head(s), SeqMin(Tail(s)))
RECURSIVE SeqMax(_)
SeqMax(s) == IF Len(s) = 1 THEN s[1] ELSE Max(Head(s), SeqMax(Tail(s)))

\* C11: the mean the filter returns (and its rounding to two decimals) is
\* neither below the least nor above the greatest of the last smooth
\* observed values (the value just observed when smooth is below 1).
C11_MeanWithinWindow ==
    decided =>
        LET w == LastN(inputs, Max(smooth, 1))
            n == Len(values)
        IN  /\ SeqMin(w) * n <= Sum(values)
            /\ Sum(values) <= SeqMax(w) * n
            /\ SeqMin(w) <= average_kw
            /\ average_kw <= SeqMax(w)

\* C12: when the previous cycle sent its target and the update succeeded,
\* a cycle that computes the same target sends no update.
C12_SameTargetNoSecondUpdate ==
    (decided /\ prevUpdated /\ final_amps = prevFinal) =>
        (~updateIssued /\ pc # "APPLYING")

C12_Witness ==
    /\ decided
    /\ prevUpdated
    /\ final_amps = prevFinal
    /\ pc = "SLEEPING"

\* C13 as stated: the value fed to the filter is exactly production minus
\* consumption plus the charger's draw.
C13_FedValueIsExactSum ==
    observed =>
        available_for_charger_kw * WattsPerCentiKw = prod_kw - cons_kw + usage_kw

\* C13 as amended: the value fed to the filter is production minus
\* consumption plus the charger's draw up to the two roundings to 0.01 kW
\* (so within 0.01 kW of it); it is not clamped and may be negative.
C13_FedValueIsRoundedSum ==
    observed =>
        LET exact == prod_kw - cons_kw + usage_kw
            fed == available_for_charger_kw * WattsPerCentiKw
        IN  /\ fed - exact <= WattsPerCentiKw
            /\ exact - fed <= WattsPerCentiKw

C13_Witness ==
    /\ observed
    /\ available_for_charger_kw < 0
    /\ prod_kw - cons_kw + usage_kw < 0

\* C14 as stated: the raw amperage is the floor of the smoothed power
\* divided by 240 V, so raw amps times 240 V never exceeds the power.
C14_RawAmpsIsFloor ==
    decided =>
        /\ amps_from_kw = average_kw \div CentiKwPerAmp
        /\ amps_from_kw * CentiKwPerAmp <= average_kw

\* C14 as amended: the raw amperage is the quotient cut toward zero: it
\* lies between zero and the quotient, less than one amp (at most one amp)
\* from it; for negative power it is at or above the quotient.
C14_RawAmpsIsTruncation ==
    decided =>
        LET w == amps_from_kw * CentiKwPerAmp
        IN  /\ average_kw >= 0 =>
                (0 <= w /\ w <= average_kw /\ average_kw - w <= CentiKwPerAmp)
            /\ average_kw < 0 =>
                (average_kw <= w /\ w <= 0 /\ w - average_kw <= CentiKwPerAmp)

C14_Witness ==
    /\ decided
    /\ average_kw < 0
    /\ amps_from_kw * CentiKwPerAmp > average_kw
    /\ amps_from_kw < 0

\* C15: no setpoint update changes whether the charger is switched on, and
\* when the computed amperage is below the minimum the loop commands the
\* minimum charge of 6 A.
C15_NeverSwitchesOffCommandsSix ==
    [][ /\ (pc = "APPLYING" /\ pc' = "SLEEPING") => backend_on' = backend_on
        /\ (decided' /\ amps' < MIN_AMPS) => final_amps' = MIN_AMPS ]_vars

\* C16: iterations never overlap: a new one begins only when the running
\* one is over and asleep (or at start-up), and the history and the cached
\* charging rate change only in the step of the running iteration that
\* smooths and decides.
C16_CyclesNeverOverlap ==
    [][ /\ cycle' # cycle =>
             /\ pc \in {"STARTUP", "SLEEPING"}
             /\ pc' = "FETCHING_SITE"
             /\ cycle' = cycle + 1
        /\ (values' # values \/ (pc # "STARTUP" /\ charging_rate' # charging_rate)) =>
             /\ pc = "FETCHING_USAGE"
             /\ cycle' = cycle ]_vars

C16_Witness ==
    /\ cycle = 2
    /\ pc = "FETCHING_SITE"
    /\ values # <<>>
    /\ prevUpdated

\* C17: nothing is passed to the filter, nothing is decided and no update
\* is sent in an iteration unless both reads of that iteration succeeded.
C17_BothReadsBeforeUse ==
    (observed \/ decided \/ updateIssued \/ values # valuesAtStart) =>
        (siteRead /\ usageRead)

C17_Witness ==
    /\ siteRead
    /\ ~usageRead
    /\ fetchFailed
    /\ pc = "TERMINATED"
    /\ values = valuesAtStart
    /\ valuesAtStart # <<>>

\* C18: a failed update is not recorded as the last known rate, and the
\* loop lives on to send it again.
C18_FailedUpdateNotRecorded ==
    updateFailed => (charging_rate = pre_change /\ pc \in LoopStates)

\* C19: in an iteration where both reads succeeded the history holds the
\* fused reading of that iteration (as its newest value), whatever becomes
\* of the update.
C19_ReadingInHistory ==
    (siteRead /\ usageRead) =>
        /\ values # <<>>
        /\ values[Len(values)] = available_for_charger_kw

\* C20: two successive successful updates never carry the same rate.
C20_SuccessiveUpdatesDiffer ==
    (prevWritten # 0 /\ lastWritten # 0) => prevWritten # lastWritten

C20_Witness ==
    /\ prevWritten # 0
    /\ lastWritten # 0
    /\ cycle = 3
    /\ updateIssued
    /\ ~prevUpdated
    /\ pc = "SLEEPING"

====
